---- MODULE Spec2Model ----
(***************************************************************************)
(* Ring setup and teardown of liburing (src/setup.c): mapping the rings,   *)
(* creating and destroying a ring, the fork advisory, the capability probe *)
(* and the memlock estimator.  Every public call is one atomic action; the *)
(* system calls it issues are recorded, in order, in `log`.                *)
(***************************************************************************)
EXTENDS Integers, Sequences, FiniteSets, TLC

\* ---------------------------------------------------------------- bounds
\* The caller's ring is created with a depth in 0..MaxDepth.
MaxDepth == 3
\* The estimator is asked about depths 0..MaxEstDepth and completion overrides
\* 0..MaxCq, plus the values around the kernel maxima.
MaxEstDepth == 5
MaxCq == 5
\* At most this many probe buffers are owned by the caller at once.
MaxProbes == 1
MaxHalf == 3
MaxRounds == 2

\* ------------------------------------------------------------- constants
EINVAL == 22
ENOMEM == 12
NULL == 0
MAP_FAILED == -1
SizeofUnsigned == 4
SizeofCqe == 16
SizeofSqe == 64
KRING_SIZE == 320
KERN_MAX_ENTRIES == 32768
KERN_MAX_CQ_ENTRIES == 2 * KERN_MAX_ENTRIES
ProbeDepth == 2
DefaultPageSize == 4096
\* Addresses handed out by mmap are multiples of AddrStride, which exceeds the
\* longest region of the model, so live mappings never overlap.
AddrStride == 8388608
\* The result of reading through a pointer into no mapping (SIGSEGV).
SEGV == -2

\* Byte offsets the kernel reports in sq_off / cq_off (opaque ABI data).
SqOff(array) ==
    [head |-> 0, tail |-> 64, ring_mask |-> 256, ring_entries |-> 264,
     flags |-> 276, dropped |-> 272, array |-> array]
CqOff(flags) ==
    [head |-> 128, tail |-> 192, ring_mask |-> 260, ring_entries |-> 268,
     overflow |-> 284, cqes |-> 320, flags |-> flags]
ZeroSqOff ==
    [head |-> 0, tail |-> 0, ring_mask |-> 0, ring_entries |-> 0,
     flags |-> 0, dropped |-> 0, array |-> 0]
ZeroCqOff ==
    [head |-> 0, tail |-> 0, ring_mask |-> 0, ring_entries |-> 0,
     overflow |-> 0, cqes |-> 0, flags |-> 0]

Depths == 0..MaxDepth
EstDepths ==
    (0..MaxEstDepth) \cup {256, KERN_MAX_ENTRIES, KERN_MAX_ENTRIES + 1}
CqOverrides ==
    (0..MaxCq) \cup {8, 16, 512, KERN_MAX_CQ_ENTRIES, KERN_MAX_CQ_ENTRIES + 1}
SetupFlags == SUBSET {"CLAMP", "CQSIZE"}
Features == SUBSET {"SINGLE_MMAP", "NATIVE_WORKERS"}
Regions == {"SQ_RING", "CQ_RING", "SQES"}

VARIABLES
    kernel,   \* what the running kernel reports: features and the layout
    mapped,   \* the live mappings of the process
    fds,      \* the open ring descriptors, each with its resolved params
    heap,     \* number of live probe buffers
    ring,     \* the caller's struct io_uring
    rstate,   \* "zero", "failed", "live" or "destroyed": the caller's view
    crashed,  \* the process took SIGSEGV
    log,      \* the system calls of the last call, in order
    last,     \* the last call: its name, arguments and result
    req,      \* the estimate asked for: depth, options and the page size
    depth,    \* a 32-bit word given to roundup_pow2
    rounded   \* what roundup_pow2 made of depth, and of that result in turn

vars == <<kernel, mapped, fds, heap, ring, rstate, crashed, log, last, req,
          depth, rounded>>

\* ------------------------------------------------------------ structures
ZeroSq ==
    [khead |-> NULL, ktail |-> NULL, kring_mask |-> NULL,
     kring_entries |-> NULL, kflags |-> NULL, kdropped |-> NULL,
     array |-> NULL, sqes |-> NULL, ring_sz |-> 0, ring_ptr |-> NULL]
ZeroCq ==
    [khead |-> NULL, ktail |-> NULL, kring_mask |-> NULL,
     kring_entries |-> NULL, kflags |-> NULL, koverflow |-> NULL,
     cqes |-> NULL, ring_sz |-> 0, ring_ptr |-> NULL]
ZeroRing ==
    [sq |-> ZeroSq, cq |-> ZeroCq, flags |-> {}, ring_fd |-> 0,
     features |-> {}]
Params(flags, cq_entries) ==
    [flags |-> flags, sq_entries |-> 0, cq_entries |-> cq_entries,
     features |-> {}, sq_off |-> ZeroSqOff, cq_off |-> ZeroCqOff]

\* The process state the calls thread through: M.log grows by one event per
\* system call.
Ev(op, id, addr, len, res) ==
    [op |-> op, id |-> id, addr |-> addr, len |-> len, res |-> res]
Logged(M, e) == [M EXCEPT !.log = Append(@, e)]

Only(S) == CHOOSE x \in S : TRUE
Min(S) == CHOOSE x \in S : \A y \in S : x <= y
Max(S) == CHOOSE x \in S : \A y \in S : x >= y

\* Smallest power of two >= n, for n >= 1 (the kernel's own rounding).
RECURSIVE Pow2Ceil(_)
Pow2Ceil(n) == IF n <= 1 THEN 1 ELSE 2 * Pow2Ceil((n + 1) \div 2)

\* ------------------------------------------------------ system primitives
\* io_uring_setup(2): validates the depth and the options, then allocates the
\* ring (which may fail for lack of resources) and writes the granted depths,
\* the layout and the features back into p.
SysSetup(M, entries, p, fail) ==
    LET clamp == "CLAMP" \in p.flags
        e1 == IF entries > KERN_MAX_ENTRIES THEN KERN_MAX_ENTRIES ELSE entries
        sqn == Pow2Ceil(e1)
        c1 == IF p.cq_entries > KERN_MAX_CQ_ENTRIES
              THEN KERN_MAX_CQ_ENTRIES ELSE p.cq_entries
        cqn == IF "CQSIZE" \in p.flags THEN Pow2Ceil(c1) ELSE 2 * sqn
        invalid ==
            \/ entries = 0
            \/ entries > KERN_MAX_ENTRIES /\ ~clamp
            \/ /\ "CQSIZE" \in p.flags
               /\ \/ p.cq_entries = 0
                  \/ p.cq_entries > KERN_MAX_CQ_ENTRIES /\ ~clamp
                  \/ cqn < sqn
        err == IF invalid THEN EINVAL ELSE IF fail THEN ENOMEM ELSE 0
        fd == Min((3..(3 + Cardinality(M.fds))) \ {c.fd : c \in M.fds})
        rp == [p EXCEPT !.sq_entries = sqn, !.cq_entries = cqn,
                        !.features = M.kernel.features,
                        !.sq_off = SqOff(M.kernel.sq_array),
                        !.cq_off = CqOff(M.kernel.cq_flags)]
    IN  IF err # 0
        THEN [fd |-> -1, errno |-> err, p |-> p,
              M |-> Logged(M, Ev("setup", "", 0, entries, -1))]
        ELSE [fd |-> fd, errno |-> 0, p |-> rp,
              M |-> Logged([M EXCEPT !.fds = @ \cup {[fd |-> fd, p |-> rp]}],
                           Ev("setup", "", 0, entries, fd))]

\* mmap(0, len, ..., MAP_SHARED | MAP_POPULATE, fd, off): a fresh address, or
\* MAP_FAILED.  The ring region holds the words the kernel wrote into it.
Mmap(M, len, fd, off, fail) ==
    LET used == {m.addr : m \in M.mapped}
        addr == Min({k * AddrStride : k \in 1..(Cardinality(used) + 1)} \ used)
        ctx == CHOOSE c \in M.fds : c.fd = fd
        words == IF off = "SQ_RING"
                 THEN {<<ctx.p.sq_off.ring_entries, ctx.p.sq_entries>>,
                       <<ctx.p.sq_off.ring_mask, ctx.p.sq_entries - 1>>}
                 ELSE {}
    IN  IF fail
        THEN [addr |-> MAP_FAILED, errno |-> ENOMEM,
              M |-> Logged(M, Ev("mmap", off, MAP_FAILED, len, fd))]
        ELSE [addr |-> addr, errno |-> 0,
              M |-> Logged([M EXCEPT !.mapped = @ \cup
                               {[addr |-> addr, len |-> len, off |-> off,
                                 words |-> words]}],
                           Ev("mmap", off, addr, len, fd))]

\* munmap(addr, len): every mapping lying inside [addr, addr + len) goes.
Munmap(M, addr, len) ==
    Logged([M EXCEPT !.mapped =
                {m \in @ : ~(addr <= m.addr /\ m.addr + m.len <= addr + len)}],
           Ev("munmap", "", addr, len, 0))

\* close(fd)
Close(M, fd) ==
    Logged([M EXCEPT !.fds = {c \in @ : c.fd # fd}], Ev("close", "", 0, 0, fd))

\* The word read through pointer ptr.  A pointer into no mapping of the ring
\* is dangling: the read faults (SEGV) or yields whatever the process has
\* there, as `dangling` says.
Load(M, ptr, dangling) ==
    LET in == {m \in M.mapped : m.addr <= ptr /\ ptr < m.addr + m.len}
    IN  IF in = {} THEN dangling
        ELSE LET m == CHOOSE x \in in : TRUE
                 w == {v \in m.words : v[1] = ptr - m.addr}
             IN  IF w = {} THEN 0 ELSE (CHOOSE v \in w : TRUE)[2]

\* madvise(addr, len, MADV_DONTFORK): EINVAL for an address that is not page
\* aligned, ENOMEM for a range that is not mapped.
Madvise(M, addr, len, fail) ==
    LET ok == ~fail /\ \E m \in M.mapped : m.addr = addr
        err == IF addr % AddrStride # 0 THEN EINVAL ELSE ENOMEM
    IN  [ret |-> IF ok THEN 0 ELSE -1, errno |-> IF ok THEN 0 ELSE err,
         M |-> Logged(M, Ev("madvise", "", addr, len, IF ok THEN 0 ELSE -1))]

\* ------------------------------------------------------------ the mapper
\* Mutant: the test forgets that the rings may share one mapping.
CqMappedAny(sq, cq) == cq.ring_ptr # NULL

\* The second ring region is unmapped when it is mapped on its own.
CqMappedApart(sq, cq) == cq.ring_ptr # NULL /\ cq.ring_ptr # sq.ring_ptr

IoUringUnmapRings(M, sq, cq) ==
    IF CqMappedApart(sq, cq)
    THEN Munmap(Munmap(M, sq.ring_ptr, sq.ring_sz), cq.ring_ptr, cq.ring_sz)
    ELSE Munmap(M, sq.ring_ptr, sq.ring_sz)

SqRingSize(p) == p.sq_off.array + p.sq_entries * SizeofUnsigned
CqRingSize(p) == p.cq_off.cqes + p.cq_entries * SizeofCqe
SingleMmap(p) == "SINGLE_MMAP" \in p.features
\* Mutant: the lengths are not unified to the longer one.
UnifiedSizeSqOnly(sqsz, cqsz) == sqsz

\* The length of the one ring mapping when the kernel maps both rings at once.
UnifiedSize(sqsz, cqsz) == IF cqsz > sqsz THEN cqsz ELSE sqsz
\* sq->ring_sz and cq->ring_sz as io_uring_mmap sets them
SqRingSz(p) ==
    IF SingleMmap(p) THEN UnifiedSize(SqRingSize(p), CqRingSize(p))
    ELSE SqRingSize(p)
CqRingSz(p) == IF SingleMmap(p) THEN SqRingSz(p) ELSE CqRingSize(p)

SqPointers(sq, p) ==
    [sq EXCEPT !.khead = sq.ring_ptr + p.sq_off.head,
               !.ktail = sq.ring_ptr + p.sq_off.tail,
               !.kring_mask = sq.ring_ptr + p.sq_off.ring_mask,
               !.kring_entries = sq.ring_ptr + p.sq_off.ring_entries,
               !.kflags = sq.ring_ptr + p.sq_off.flags,
               !.kdropped = sq.ring_ptr + p.sq_off.dropped,
               !.array = sq.ring_ptr + p.sq_off.array]
CqPointers(cq, p) ==
    [cq EXCEPT !.khead = cq.ring_ptr + p.cq_off.head,
               !.ktail = cq.ring_ptr + p.cq_off.tail,
               !.kring_mask = cq.ring_ptr + p.cq_off.ring_mask,
               !.kring_entries = cq.ring_ptr + p.cq_off.ring_entries,
               !.koverflow = cq.ring_ptr + p.cq_off.overflow,
               !.cqes = cq.ring_ptr + p.cq_off.cqes,
               !.kflags = IF p.cq_off.flags # 0
                          THEN cq.ring_ptr + p.cq_off.flags ELSE @]

\* Mutant: the error exit returns without unmapping.
MmapErrLeak(M, sq, cq, ret) == [ret |-> ret, sq |-> sq, cq |-> cq, M |-> M]

\* The error exit of io_uring_mmap (label err).
MmapErr(M, sq, cq, ret) ==
    [ret |-> ret, sq |-> sq, cq |-> cq, M |-> IoUringUnmapRings(M, sq, cq)]

\* The second mapping: none when both rings share one mapping.
MmapCq(M, fd, p, sq, failAt) ==
    IF SingleMmap(p) THEN [addr |-> sq.ring_ptr, errno |-> 0, M |-> M]
    ELSE Mmap(M, CqRingSz(p), fd, "CQ_RING", failAt = "CQ_RING")

\* io_uring_mmap from its third mapping on: sq and cq hold the ring regions.
MmapSqes(M, fd, p, sq, cq, failAt) ==
    Only({IF r3.addr = MAP_FAILED
          THEN MmapErr(r3.M, [sq EXCEPT !.sqes = r3.addr], cq, -r3.errno)
          ELSE [ret |-> 0, sq |-> [sq EXCEPT !.sqes = r3.addr],
                cq |-> CqPointers(cq, p), M |-> r3.M] :
          r3 \in {Mmap(M, p.sq_entries * SizeofSqe, fd, "SQES",
                       failAt = "SQES")}})

\* io_uring_mmap from its second mapping on: sq holds the first region.
MmapRest(M, fd, p, sq, cq, failAt) ==
    Only({IF r2.addr = MAP_FAILED
          THEN MmapErr(r2.M, sq, [cq EXCEPT !.ring_ptr = NULL], -r2.errno)
          ELSE MmapSqes(r2.M, fd, p, SqPointers(sq, p),
                        [cq EXCEPT !.ring_ptr = r2.addr], failAt) :
          r2 \in {MmapCq(M, fd, p, sq, failAt)}})

\* failAt names the region whose mmap fails, if any.
IoUringMmap(M, fd, p, sq0, cq0, failAt) ==
    Only({IF r1.addr = MAP_FAILED
          THEN [ret |-> -r1.errno, M |-> r1.M,
                sq |-> [sq0 EXCEPT !.ring_sz = SqRingSz(p),
                                   !.ring_ptr = r1.addr],
                cq |-> [cq0 EXCEPT !.ring_sz = CqRingSz(p)]]
          ELSE MmapRest(r1.M, fd, p,
                        [sq0 EXCEPT !.ring_sz = SqRingSz(p),
                                    !.ring_ptr = r1.addr],
                        [cq0 EXCEPT !.ring_sz = CqRingSz(p)], failAt) :
          r1 \in {Mmap(M, SqRingSz(p), fd, "SQ_RING", failAt = "SQ_RING")}})

IoUringQueueMmap(M, fd, p, failAt) ==
    Only({[ret |-> r.ret, M |-> r.M,
           ring |-> IF r.ret = 0
                    THEN [ZeroRing EXCEPT !.sq = r.sq, !.cq = r.cq,
                                          !.flags = p.flags, !.ring_fd = fd]
                    ELSE [ZeroRing EXCEPT !.sq = r.sq, !.cq = r.cq]] :
          r \in {IoUringMmap(M, fd, p, ZeroSq, ZeroCq, failAt)}})

\* ------------------------------------------------------------- lifecycle
\* Mutant: the descriptor is not closed when the mapper fails.
InitMappedNoClose(s, failAt) ==
    Only({IF r.ret # 0
          THEN [ret |-> r.ret, ring |-> r.ring, p |-> s.p, M |-> r.M,
                opened |-> TRUE]
          ELSE [ret |-> 0, ring |-> [r.ring EXCEPT !.features = s.p.features],
                p |-> s.p, M |-> r.M, opened |-> TRUE] :
          r \in {IoUringQueueMmap(s.M, s.fd, s.p, failAt)}})

\* io_uring_queue_init_params after a successful setup s.
InitMapped(s, failAt) ==
    Only({IF r.ret # 0
          THEN [ret |-> r.ret, ring |-> r.ring, p |-> s.p,
                M |-> Close(r.M, s.fd), opened |-> TRUE]
          ELSE [ret |-> 0, ring |-> [r.ring EXCEPT !.features = s.p.features],
                p |-> s.p, M |-> r.M, opened |-> TRUE] :
          r \in {IoUringQueueMmap(s.M, s.fd, s.p, failAt)}})

\* o.setup: the kernel runs out of resources; o.mmap: the region whose
\* mapping fails ("" for none).
IoUringQueueInitParams(M, entries, ring0, p, o) ==
    Only({IF s.fd < 0
          THEN [ret |-> -s.errno, ring |-> ring0, p |-> s.p, M |-> s.M,
                opened |-> FALSE]
          ELSE InitMapped(s, o.mmap) :
          s \in {SysSetup(M, entries, p, o.setup)}})

IoUringQueueInit(M, entries, ring0, flags, o) ==
    IoUringQueueInitParams(M, entries, ring0, Params(flags, 0), o)

\* Mutant: the entry array is sized with the wrong record size.
SqesLenOfSlots(n) == n * SizeofUnsigned

\* The length destroy gives for the entry array: the depth read from the ring.
SqesLen(n) == n * SizeofSqe

\* Mutant: the descriptor is closed before the regions are unmapped.
QueueExitCloseFirst(M, rg, dangling) ==
    Only({IF n = SEGV
          THEN [Logged(M, Ev("load", "", rg.sq.kring_entries, 0, n))
                   EXCEPT !.crashed = TRUE]
          ELSE IoUringUnmapRings(
                   Munmap(Close(Logged(M, Ev("load", "",
                                             rg.sq.kring_entries, 0, n)),
                                rg.ring_fd),
                          rg.sq.sqes, SqesLen(n)),
                   rg.sq, rg.cq) :
          n \in {Load(M, rg.sq.kring_entries, dangling)}})

\* Mutant: the depth is read after the ring regions were unmapped.
QueueExitUnmapFirst(M, rg, dangling) ==
    Only({Only({IF n = SEGV
                THEN [Logged(u, Ev("load", "", rg.sq.kring_entries, 0, n))
                         EXCEPT !.crashed = TRUE]
                ELSE Close(Munmap(Logged(u, Ev("load", "",
                                               rg.sq.kring_entries, 0, n)),
                                  rg.sq.sqes, SqesLen(n)),
                           rg.ring_fd) :
                n \in {Load(u, rg.sq.kring_entries, dangling)}}) :
          u \in {IoUringUnmapRings(M, rg.sq, rg.cq)}})

IoUringQueueExit(M, rg, dangling) ==
    Only({IF n = SEGV
          THEN [Logged(M, Ev("load", "", rg.sq.kring_entries, 0, n))
                   EXCEPT !.crashed = TRUE]
          ELSE Close(IoUringUnmapRings(
                         Munmap(Logged(M, Ev("load", "", rg.sq.kring_entries,
                                             0, n)),
                                rg.sq.sqes, SqesLen(n)),
                         rg.sq, rg.cq),
                     rg.ring_fd) :
          n \in {Load(M, rg.sq.kring_entries, dangling)}})

\* The handle is not fully initialised: a required mapping is absent.
MappingAbsent(rg) ==
    rg.sq.ring_ptr = NULL \/ rg.sq.sqes = NULL \/ rg.cq.ring_ptr = NULL

\* The result of io_uring_ring_dontfork after a madvise that returned a.
Advised(a) == [ret |-> IF a.ret = -1 THEN -a.errno ELSE 0, M |-> a.M]

\* Mutant: the completion ring is advised even when it shares the mapping.
DontforkCqAlways(M, rg, failAdv) ==
    Advised(Madvise(M, rg.cq.ring_ptr, rg.cq.ring_sz, failAdv = 3))

\* The advisory on the completion ring, when it has a mapping of its own.
DontforkCq(M, rg, failAdv) ==
    IF rg.cq.ring_ptr # rg.sq.ring_ptr
    THEN Advised(Madvise(M, rg.cq.ring_ptr, rg.cq.ring_sz, failAdv = 3))
    ELSE [ret |-> 0, M |-> M]

DontforkRing(M, rg, failAdv) ==
    Only({IF a2.ret = -1 THEN Advised(a2) ELSE DontforkCq(a2.M, rg, failAdv) :
          a2 \in {Madvise(M, rg.sq.ring_ptr, rg.sq.ring_sz, failAdv = 2)}})

DontforkSqes(M, rg, n, failAdv) ==
    Only({IF a1.ret = -1 THEN Advised(a1)
          ELSE DontforkRing(a1.M, rg, failAdv) :
          a1 \in {Madvise(M, rg.sq.sqes, SqesLen(n), failAdv = 1)}})

\* failAdv is the number of the madvise call that fails (0 for none).
IoUringRingDontfork(M, rg, failAdv, dangling) ==
    IF MappingAbsent(rg) THEN [ret |-> -EINVAL, M |-> M]
    ELSE Only({IF n = SEGV
               THEN [ret |-> 0,
                     M |-> [Logged(M, Ev("load", "", rg.sq.kring_entries, 0,
                                         n)) EXCEPT !.crashed = TRUE]]
               ELSE DontforkSqes(Logged(M, Ev("load", "", rg.sq.kring_entries,
                                               0, n)),
                                 rg, n, failAdv) :
               n \in {Load(M, rg.sq.kring_entries, dangling)}})

\* ----------------------------------------------------------------- prober
\* io_uring_register_probe: the kernel's answer, as the environment decides.
RegisterProbe(M, rg, fail) ==
    [ret |-> IF fail THEN -EINVAL ELSE 0,
     M |-> Logged(M, Ev("register", "", IF fail THEN -EINVAL ELSE 0, 256,
                        rg.ring_fd))]

\* Mutant: the buffer is kept when the query fails.
GetProbeRingNoFree(M, rg, o) ==
    IF o.malloc
    THEN [probe |-> NULL, M |-> Logged(M, Ev("malloc", "", NULL, 0, 0))]
    ELSE Only({[probe |-> IF g.ret >= 0 THEN 1 ELSE NULL, M |-> g.M] :
               g \in {RegisterProbe(Logged([M EXCEPT !.heap = @ + 1],
                                           Ev("malloc", "", 1, 0, 0)),
                                    rg, o.register)}})

\* o.malloc: the allocation fails; o.register: io_uring_register_probe fails.
IoUringGetProbeRing(M, rg, o) ==
    IF o.malloc
    THEN [probe |-> NULL, M |-> Logged(M, Ev("malloc", "", NULL, 0, 0))]
    ELSE Only({IF g.ret >= 0 THEN [probe |-> 1, M |-> g.M]
               ELSE [probe |-> NULL,
                     M |-> Logged([g.M EXCEPT !.heap = @ - 1],
                                  Ev("free", "", 1, 0, 0))] :
               g \in {RegisterProbe(Logged([M EXCEPT !.heap = @ + 1],
                                           Ev("malloc", "", 1, 0, 0)),
                                    rg, o.register)}})

\* Mutant: a failed query returns before the scratch ring is destroyed.
ProbeScratchEarlyReturn(r, o) ==
    Only({[probe |-> g.probe, made |-> TRUE,
           M |-> IF g.probe = NULL THEN g.M
                 ELSE IoUringQueueExit(g.M, r.ring, o.dangling)] :
          g \in {IoUringGetProbeRing(r.M, r.ring, o)}})

\* io_uring_get_probe after its scratch ring r was created.
ProbeScratch(r, o) ==
    Only({[probe |-> g.probe, made |-> TRUE,
           M |-> IoUringQueueExit(g.M, r.ring, o.dangling)] :
          g \in {IoUringGetProbeRing(r.M, r.ring, o)}})

IoUringGetProbe(M, o) ==
    Only({IF r.ret < 0 THEN [probe |-> NULL, M |-> r.M, made |-> FALSE]
          ELSE ProbeScratch(r, o) :
          r \in {IoUringQueueInit(M, ProbeDepth, ZeroRing, {}, o)}})

IoUringFreeProbe(M) ==
    Logged([M EXCEPT !.heap = @ - 1], Ev("free", "", 1, 0, 0))

\* -------------------------------------------------------------- bit math
\* A 32-bit word is the pair <<high half, low half>> of 16-bit halves.
Half == 65536
RECURSIVE Pow2(_)
Pow2(k) == IF k = 0 THEN 1 ELSE 2 * Pow2(k - 1)
U32(n) == <<(n \div Half) % Half, n % Half>>
ToInt(x) == x[1] * Half + x[2]
\* x - 1 and x << k (0 < k <= 16), both modulo 2^32
U32Dec(x) ==
    IF x[2] > 0 THEN <<x[1], x[2] - 1>>
    ELSE <<(x[1] + Half - 1) % Half, Half - 1>>
Shl(x, k) ==
    <<(x[1] % Pow2(16 - k)) * Pow2(k) + x[2] \div Pow2(16 - k),
      (x[2] % Pow2(16 - k)) * Pow2(k)>>
\* x has none of its top n bits set (n <= 16)
TopClear(x, n) == x[1] \div Pow2(16 - n) = 0

\* One halving step of __fls: s = <<x, r>>.
FlsStep(s, n) == IF TopClear(s[1], n) THEN <<Shl(s[1], n), s[2] - n>> ELSE s

fls(x) ==
    IF x = <<0, 0>> THEN 0
    ELSE FlsStep(FlsStep(FlsStep(FlsStep(FlsStep(<<x, 32>>, 16), 8), 4), 2),
                 1)[2]

\* (unsigned) (1UL << r) for r in 0..32, unsigned long being 64 bits wide
Shl1(r) ==
    IF r >= 32 THEN <<0, 0>>
    ELSE IF r >= 16 THEN <<Pow2(r - 16), 0>> ELSE <<0, Pow2(r)>>

roundup_pow2(n) == Shl1(fls(U32Dec(n)))

\* What a build can return from roundup_pow2(n).  A shift count of 32 is
\* defined only where unsigned long is wider than 32 bits (the result is then
\* truncated to 0); where it is 32 bits wide the shift is undefined, and a
\* processor that takes the count modulo 32 yields 1.
RoundupOutcomes(n) ==
    {roundup_pow2(n)}
    \cup (IF fls(U32Dec(n)) = 32 THEN {<<0, 1>>} ELSE {})

\* Mutant: the size is not decremented before the division.
npagesNoDec(size, page_size) == fls(U32(size \div page_size))

\* size is at least 1 and, like the quotient, below 2^31
npages(size, page_size) == fls(U32((size - 1) \div page_size))

\* (cq_size + 63) & ~63UL
Align64(n) == ((n + 63) \div 64) * 64

rings_size(entries, cq_entries, page_size) ==
    LET cq_size == Align64(KRING_SIZE + cq_entries * SizeofCqe)
        sq_size == SizeofSqe * entries
        pages == Pow2(npages(cq_size, page_size))
                 + Pow2(npages(sq_size, page_size))
    IN  pages * page_size

\* -------------------------------------------------------------- estimator
\* Mutant: the feature is looked up in the caller's params.
NativeWorkersOfCaller(lp, p) == "NATIVE_WORKERS" \in p.features

\* The feature test of the estimator, on the throwaway ring's params lp.
NativeWorkers(lp, p) == "NATIVE_WORKERS" \in lp.features

\* Mutant: the completion override is compared as the caller gave it.
CqRoundedNot(c1) == c1

\* cq_entries = roundup_pow2(cq_entries)
CqRounded(c1) == ToInt(roundup_pow2(U32(c1)))

\* Mutant: the default completion depth equals the submission depth.
CqDefaultSame(sqn) == sqn

\* cq_entries = 2 * entries
CqDefault(sqn) == 2 * sqn

\* The sizing that follows the throwaway ring; sysconf is the result of
\* sysconf(_SC_PAGESIZE).
MlockSizeOf(entries, p, lp, sysconf) ==
    IF NativeWorkers(lp, p) THEN 0
    ELSE IF entries = 0 THEN -EINVAL
    ELSE IF entries > KERN_MAX_ENTRIES /\ "CLAMP" \notin p.flags THEN -EINVAL
    ELSE
    LET e1 == IF entries > KERN_MAX_ENTRIES THEN KERN_MAX_ENTRIES ELSE entries
        sqn == ToInt(roundup_pow2(U32(e1)))
        page_size == IF sysconf < 0 THEN DefaultPageSize ELSE sysconf
    IN  IF "CQSIZE" \in p.flags
        THEN IF p.cq_entries = 0 THEN -EINVAL
             ELSE IF p.cq_entries > KERN_MAX_CQ_ENTRIES
                     /\ "CLAMP" \notin p.flags THEN -EINVAL
             ELSE
             LET c1 == IF p.cq_entries > KERN_MAX_CQ_ENTRIES
                       THEN KERN_MAX_CQ_ENTRIES ELSE p.cq_entries
                 cqn == CqRounded(c1)
             IN  IF cqn < sqn THEN -EINVAL
                 ELSE rings_size(sqn, cqn, page_size)
        ELSE rings_size(sqn, CqDefault(sqn), page_size)

\* Mutant: the throwaway ring is opened with a fixed depth.
ThrowawayRingOfTwo(M, entries, o) ==
    IoUringQueueInitParams(M, ProbeDepth, ZeroRing, Params({}, 0), o)

\* io_uring_queue_init_params(entries, &ring, &lp) with lp zeroed.
ThrowawayRing(M, entries, o) ==
    IoUringQueueInitParams(M, entries, ZeroRing, Params({}, 0), o)

\* Mutant: the throwaway ring is left behind when a count is returned.
MlockSizeParamsNoExit(M, entries, p, o, sysconf) ==
    Only({IF r.ret < 0 THEN [ret |-> r.ret, M |-> r.M, made |-> FALSE]
          ELSE [ret |-> MlockSizeOf(entries, p, r.p, sysconf), made |-> TRUE,
                M |-> IF NativeWorkers(r.p, p)
                      THEN IoUringQueueExit(r.M, r.ring, o.dangling)
                      ELSE r.M] :
          r \in {ThrowawayRing(M, entries, o)}})

IoUringMlockSizeParams(M, entries, p, o, sysconf) ==
    Only({IF r.ret < 0 THEN [ret |-> r.ret, M |-> r.M, made |-> FALSE]
          ELSE [ret |-> MlockSizeOf(entries, p, r.p, sysconf), made |-> TRUE,
                M |-> IoUringQueueExit(r.M, r.ring, o.dangling)] :
          r \in {ThrowawayRing(M, entries, o)}})

IoUringMlockSize(M, entries, flags, o, sysconf) ==
    IoUringMlockSizeParams(M, entries, Params(flags, 0), o, sysconf)

\* ---------------------------------------------------------------- actions
Mach == [kernel |-> kernel, mapped |-> mapped, fds |-> fds, heap |-> heap,
         log |-> <<>>, crashed |-> FALSE]
\* What the environment decides during a call that creates a ring.
RingOracles ==
    {[setup |-> s, mmap |-> m] :
        <<s, m>> \in {<<FALSE, "">>, <<TRUE, "">>} \cup ({FALSE} \X Regions)}
Oracles == {[setup |-> r.setup, mmap |-> r.mmap, malloc |-> FALSE,
             register |-> FALSE, dangling |-> SEGV] : r \in RingOracles}
ProbeOracles ==
    Oracles \cup {[setup |-> FALSE, mmap |-> "", malloc |-> m,
                    register |-> g, dangling |-> SEGV] :
                      <<m, g>> \in {<<TRUE, FALSE>>, <<FALSE, TRUE>>}}
NoFault == [setup |-> FALSE, mmap |-> "", malloc |-> FALSE,
            register |-> FALSE, dangling |-> SEGV]
Faulty(o) == o.setup \/ o.mmap # "" \/ o.malloc \/ o.register
\* The options tried when creating the caller's ring with params: flags and
\* completion override.
CreateParams ==
    {<<{}, 0>>, <<{"CQSIZE"}, 0>>, <<{"CQSIZE"}, 4>>}
Call(op, entries, flags, cq, ret, fault, made) ==
    [op |-> op, entries |-> entries, flags |-> flags, cq |-> cq, ret |-> ret,
     fault |-> fault, made |-> made,
     preMapped |-> mapped, preFds |-> fds, preHeap |-> heap]

Commit(M) ==
    /\ mapped' = M.mapped
    /\ fds' = M.fds
    /\ heap' = M.heap
    /\ log' = M.log
    /\ crashed' = M.crashed
    /\ UNCHANGED <<kernel, req, depth, rounded>>

NoCall ==
    [op |-> "none", entries |-> 0, flags |-> {}, cq |-> 0, ret |-> 0,
     fault |-> FALSE, made |-> FALSE, preMapped |-> {}, preFds |-> {},
     preHeap |-> 0]
Requests ==
    [entries : EstDepths, flags : SetupFlags, cq : CqOverrides,
     sysconf : {-1, 16384}]

Fresh ==
    /\ kernel \in [features : Features, sq_array : {384}, cq_flags : {0, 280}]
    /\ mapped = {}
    /\ fds = {}
    /\ heap = 0
    /\ ring = ZeroRing
    /\ rstate = "zero"
    /\ crashed = FALSE
    /\ log = <<>>
    /\ last = NoCall

NoRequest == [entries |-> 0, flags |-> {}, cq |-> 0, sysconf |-> -1]

Init ==
    /\ Fresh
    /\ req = NoRequest
    /\ depth = <<0, 1>> /\ rounded = <<>>

\* The process that asks for an estimate.
InitEst ==
    /\ Fresh
    /\ req \in Requests
    /\ depth = <<0, 1>> /\ rounded = <<>>

\* The words roundup_pow2 is tried on: every unsigned n >= 1 whose halves are
\* small, next to the middle of their range, or all ones.
HalfSamples ==
    (0..MaxHalf) \cup {Half \div 2 - 1, Half \div 2, Half \div 2 + 1, Half - 1}
Words == (HalfSamples \X HalfSamples) \ {<<0, 0>>}

InitPow2 ==
    /\ Fresh
    /\ kernel.features = {} /\ kernel.cq_flags = 0
    /\ req = NoRequest
    /\ depth \in Words
    /\ rounded = <<>>

\* io_uring_queue_init_params on the caller's ring.
CreateWithParams ==
    /\ ~crashed /\ rstate # "live"
    /\ \E e \in Depths, fc \in CreateParams, o \in Oracles :
        \E r \in {IoUringQueueInitParams(Mach, e, ring, Params(fc[1], fc[2]), o)} :
            /\ Commit(r.M)
            /\ ring' = r.ring
            /\ rstate' = IF r.ret = 0 THEN "live"
                         ELSE IF r.opened THEN "failed" ELSE rstate
            /\ last' = Call("create_params", e, {}, 0, r.ret,
                            r.ret = -ENOMEM, r.ret = 0)

\* io_uring_queue_init on the caller's ring.
Create ==
    /\ ~crashed /\ rstate # "live"
    /\ \E e \in Depths, f \in {{}, {"CLAMP"}}, o \in Oracles :
        \E r \in {IoUringQueueInit(Mach, e, ring, f, o)} :
            /\ Commit(r.M)
            /\ ring' = r.ring
            /\ rstate' = IF r.ret = 0 THEN "live"
                         ELSE IF r.opened THEN "failed" ELSE rstate
            /\ last' = Call("create", e, {}, 0, r.ret,
                            r.ret = -ENOMEM, r.ret = 0)

\* io_uring_queue_exit on the caller's live ring.
Destroy ==
    /\ ~crashed /\ rstate = "live"
    /\ Commit(IoUringQueueExit(Mach, ring, SEGV))
    /\ rstate' = "destroyed"
    /\ last' = Call("exit", 0, {}, 0, 0, FALSE, FALSE)
    /\ UNCHANGED ring

\* io_uring_ring_dontfork on the caller's ring, created or not.
MarkUnforkable ==
    /\ ~crashed /\ rstate # "destroyed"
    /\ \E failAdv \in 0..3, dangling \in {SEGV, 1} :
        \E r \in {IoUringRingDontfork(Mach, ring, failAdv, dangling)} :
            /\ Commit(r.M)
            /\ last' = Call("dontfork", 0, {}, 0, r.ret, r.ret = -ENOMEM,
                            FALSE)
    /\ UNCHANGED <<ring, rstate>>

\* io_uring_get_probe
ProbeCapabilities ==
    /\ ~crashed /\ heap < MaxProbes
    /\ \E o \in ProbeOracles :
        \E r \in {IoUringGetProbe(Mach, o)} :
            /\ Commit(r.M)
            /\ last' = Call("get_probe", ProbeDepth, {}, 0, r.probe,
                            Faulty(o), r.made)
    /\ UNCHANGED <<ring, rstate>>

\* io_uring_get_probe_ring on the caller's live ring.
ProbeRing ==
    /\ ~crashed /\ heap < MaxProbes /\ rstate = "live"
    /\ \E o \in ProbeOracles :
        \E r \in {IoUringGetProbeRing(Mach, ring, o)} :
            /\ Commit(r.M)
            /\ last' = Call("get_probe_ring", 0, {}, 0, r.probe, Faulty(o),
                            FALSE)
    /\ UNCHANGED <<ring, rstate>>

\* io_uring_free_probe
FreeProbe ==
    /\ ~crashed /\ heap > 0
    /\ Commit(IoUringFreeProbe(Mach))
    /\ last' = Call("free_probe", 0, {}, 0, 0, FALSE, FALSE)
    /\ UNCHANGED <<ring, rstate>>

Next ==
    \/ CreateWithParams
    \/ Create
    \/ Destroy
    \/ MarkUnforkable
    \/ ProbeCapabilities
    \/ ProbeRing
    \/ FreeProbe

\* io_uring_mlock_size_params
EstimateLockedBytes ==
    /\ ~crashed
    /\ \E o \in Oracles :
        \E r \in {IoUringMlockSizeParams(Mach, req.entries,
                       Params(req.flags, req.cq), o, req.sysconf)} :
            /\ Commit(r.M)
            /\ last' = Call("mlock_size_params", req.entries, req.flags,
                            req.cq, r.ret, Faulty(o), r.made)
    /\ UNCHANGED <<ring, rstate>>

\* io_uring_mlock_size
EstimateLockedBytesFlags ==
    /\ ~crashed
    /\ \E o \in Oracles :
        \E r \in {IoUringMlockSize(Mach, req.entries, req.flags, o,
                                   req.sysconf)} :
            /\ Commit(r.M)
            /\ last' = Call("mlock_size", req.entries, req.flags, 0, r.ret,
                            Faulty(o), r.made)
    /\ UNCHANGED <<ring, rstate>>

NextEst ==
    \/ EstimateLockedBytes
    \/ EstimateLockedBytesFlags

\* roundup_pow2 applied to depth, then to its own result.
RoundUp ==
    /\ Len(rounded) < MaxRounds
    /\ \E v \in RoundupOutcomes(IF rounded = <<>> THEN depth
                                 ELSE rounded[Len(rounded)]) :
        rounded' = Append(rounded, v)
    /\ UNCHANGED <<kernel, mapped, fds, heap, ring, rstate, crashed, log,
                   last, req, depth>>

NextPow2 == RoundUp

Spec == Init /\ [][Next]_vars
SpecPow2 == InitPow2 /\ [][NextPow2]_vars
SpecEst == InitEst /\ [][NextEst]_vars
\* ------------------------------------------------------------ properties
\* Positions in the log of the last call.
At(op) == {i \in DOMAIN log : log[i].op = op}
MapsMade == {i \in At("mmap") : log[i].addr # MAP_FAILED}
MapsFailed == {i \in At("mmap") : log[i].addr = MAP_FAILED}
IsUnmap(e) == e.op = "munmap"
Unmaps == SelectSeq(log, IsUnmap)
CreateOps == {"create", "create_params"}
\* The last call opened a channel and its mapper failed.
MapperFailed ==
    /\ last.op \in CreateOps \cup {"get_probe"}
    /\ MapsFailed # {}
\* Every mapping the last call made was unmapped once, later, as it was mapped.
AllUnmappedOnce ==
    \A i \in MapsMade :
        Cardinality({j \in At("munmap") :
                        /\ j > i
                        /\ log[j].addr = log[i].addr
                        /\ log[j].len = log[i].len}) = 1

\* C1: when io_uring_mmap fails at its second or third mapping, every mapping
\* it made in that call is unmapped exactly once, the number of munmap calls
\* equals the number of successful mmap calls, and the failed mapping is not
\* unmapped.
C1_UnwindOnMapFailure ==
    (MapperFailed /\ \E i \in MapsFailed : log[i].id # "SQ_RING") =>
        /\ AllUnmappedOnce
        /\ Cardinality(At("munmap")) = Cardinality(MapsMade)
        /\ \A j \in At("munmap") : log[j].addr # MAP_FAILED
        /\ mapped = last.preMapped
\* The entry array fails to map after two ring regions were mapped.
C1_Witness ==
    /\ MapperFailed
    /\ \E i \in MapsFailed : log[i].id = "SQES"
    /\ Cardinality(MapsMade) = 2
    /\ Len(Unmaps) = 2

\* C2: a failed create leaks nothing: when the opener fails, nothing is mapped
\* and nothing closed; when the mapper fails, the channel is closed exactly
\* once, as the last step, and the mapper's error is returned; afterwards no
\* descriptor and no region of the call is left.
C2_CreateLeaksNothing ==
    (last.op \in CreateOps /\ last.ret # 0) =>
        /\ Len(log) >= 1 /\ log[1].op = "setup"
        /\ log[1].res < 0 => Len(log) = 1
        /\ log[1].res >= 0 =>
            /\ MapsFailed # {}
            /\ At("close") = {Len(log)}
            /\ log[Len(log)].res = log[1].res
            /\ last.ret = -ENOMEM
        /\ fds = last.preFds
        /\ mapped = last.preMapped
\* A create whose mapper failed after the channel was opened.
C2_Witness ==
    /\ last.op = "create" /\ last.ret # 0
    /\ log[1].res >= 0
    /\ MapsMade # {}
    /\ At("close") # {}

\* C3: destroy after a successful create unmaps each region create mapped
\* exactly once, with its base and length, closes the channel exactly once,
\* and leaves none of them mapped or open.
C3_DestroyReleasesAll ==
    last.op = "exit" =>
        /\ \A m \in last.preMapped :
            Cardinality({j \in At("munmap") :
                            log[j].addr = m.addr /\ log[j].len = m.len}) = 1
        /\ Cardinality(At("munmap")) = Cardinality(last.preMapped)
        /\ Cardinality(At("close")) = 1
        /\ \A j \in At("close") : log[j].res = ring.ring_fd
        /\ mapped = {} /\ fds = {}
        /\ ~crashed
\* A ring with its two ring regions mapped apart was destroyed.
C3_Witness ==
    /\ last.op = "exit"
    /\ Cardinality(last.preMapped) = 3
    /\ ring.cq.ring_ptr # ring.sq.ring_ptr

\* C4: whenever the probe created its scratch ring, the ring is gone when the
\* probe returns: its mappings are unmapped and its channel is closed, whether
\* the query succeeded, failed, or the buffer could not be allocated.
C4_ProbeDestroysScratch ==
    (last.op = "get_probe" /\ last.made) =>
        /\ Cardinality(MapsMade) >= 2
        /\ AllUnmappedOnce
        /\ Cardinality(At("close")) = 1
        /\ \A j \in At("close") : log[j].res = log[1].res
        /\ mapped = last.preMapped
        /\ fds = last.preFds
\* The probe's query failed on a scratch ring that had been created.
C4_Witness ==
    /\ last.op = "get_probe" /\ last.made
    /\ last.ret = NULL
    /\ At("register") # {}

\* C5 (as claimed): on a handle that was never fully initialised, the fork
\* advisory fails with EINVAL, issues no advisory and reads through no pointer.
C5_DontforkRejectsUninitialised ==
    (last.op = "dontfork" /\ rstate \in {"zero", "failed"}) =>
        /\ last.ret = -EINVAL
        /\ log = <<>>
        /\ ~crashed

\* The pointers of a side descriptor.
SqPtrs(sq) ==
    {sq.ring_ptr, sq.sqes, sq.khead, sq.ktail, sq.kring_mask,
     sq.kring_entries, sq.kflags, sq.kdropped, sq.array}
CqPtrs(cq) ==
    {cq.ring_ptr, cq.khead, cq.ktail, cq.kring_mask, cq.kring_entries,
     cq.kflags, cq.koverflow, cq.cqes}
\* ptr refers to a mapping the last call attempted: the failed one, or one it
\* made (and, the call having failed, unmapped).
Stale(ptr) ==
    \/ ptr = MAP_FAILED
    \/ \E i \in MapsMade :
        log[i].addr <= ptr /\ ptr < log[i].addr + log[i].len

\* C6 (as claimed): after a failed io_uring_queue_mmap no pointer of either
\* side descriptor refers to a failed mapping or to a region the call mapped
\* and unmapped.
C6_NoPartialState ==
    (last.op \in CreateOps /\ last.ret # 0 /\ MapsFailed # {}) =>
        \A ptr \in SqPtrs(ring.sq) \cup CqPtrs(ring.cq) : ~Stale(ptr)

\* The resolved params of the caller's live ring.
RingParams == (CHOOSE c \in fds : c.fd = ring.ring_fd).p
Created == last.op \in CreateOps /\ last.ret = 0

\* C7: with the single-mapping feature a successful create makes exactly one
\* ring mapping, of length max(sq array offset + sq entries x 4, cqes offset +
\* cq entries x 16); both descriptors report its base and its length; the only
\* other mapping is the entry array.
C7_SingleMapping ==
    (Created /\ "SINGLE_MMAP" \in kernel.features) =>
        LET sl == RingParams.sq_off.array + RingParams.sq_entries * 4
            cl == RingParams.cq_off.cqes + RingParams.cq_entries * 16
        IN  /\ Cardinality(At("mmap")) = 2
            /\ log[2].op = "mmap" /\ log[2].id = "SQ_RING"
            /\ log[2].len = Max({sl, cl})
            /\ log[3].op = "mmap" /\ log[3].id = "SQES"
            /\ ring.sq.ring_ptr = log[2].addr
            /\ ring.cq.ring_ptr = log[2].addr
            /\ ring.sq.ring_sz = log[2].len
            /\ ring.cq.ring_sz = log[2].len
\* A combined mapping in which the completion side is the longer one.
C7_Witness ==
    /\ Created /\ "SINGLE_MMAP" \in kernel.features
    /\ RingParams.cq_off.cqes + RingParams.cq_entries * 16
         > RingParams.sq_off.array + RingParams.sq_entries * 4

\* The munmap calls io_uring_unmap_rings issued in the last call: all of them
\* on the mapper's error path, all but destroy's own first one in a destroy.
UnmapRingsRan ==
    \/ last.op = "exit"
    \/ last.op \in CreateOps /\ MapsFailed # {} /\ MapsMade # {}
UnmapRingsCalls == IF last.op = "exit" THEN Tail(Unmaps) ELSE Unmaps
Addrs(evs) == [i \in DOMAIN evs |-> evs[i].addr]
CqApart == ring.cq.ring_ptr # NULL /\ ring.cq.ring_ptr # ring.sq.ring_ptr

\* C8 (as claimed): io_uring_unmap_rings unmaps the entry array, then the
\* completion region if its base differs, then the submission region.
C8_UnmapOrderClaimed ==
    UnmapRingsRan =>
        Addrs(UnmapRingsCalls) =
            <<ring.sq.sqes>>
            \o (IF CqApart THEN <<ring.cq.ring_ptr>> ELSE <<>>)
            \o <<ring.sq.ring_ptr>>
\* C8 (amended): io_uring_unmap_rings unmaps the submission region first and
\* then the completion region, the latter only if its base is non-null and
\* differs from the submission base; it does not unmap the entry array.
C8_UnmapOrder ==
    UnmapRingsRan =>
        /\ Addrs(UnmapRingsCalls) =
            <<ring.sq.ring_ptr>>
            \o (IF CqApart THEN <<ring.cq.ring_ptr>> ELSE <<>>)
        /\ \A i \in DOMAIN UnmapRingsCalls :
            UnmapRingsCalls[i].len =
                IF i = 1 THEN ring.sq.ring_sz ELSE ring.cq.ring_sz
\* A destroy of a ring whose rings share one mapping: one ring unmap.
C8_Witness ==
    /\ last.op = "exit"
    /\ ring.cq.ring_ptr = ring.sq.ring_ptr
    /\ Len(UnmapRingsCalls) = 1

\* C9: destroy first unmaps the entry array, with length = the depth the ring
\* reports x 64, then the ring regions, and closes the channel last; the entry
\* array is unmapped once.
C9_DestroyOrder ==
    last.op = "exit" =>
        /\ Len(Unmaps) >= 2
        /\ Unmaps[1].addr = ring.sq.sqes
        /\ Unmaps[1].len =
            Load([mapped |-> last.preMapped], ring.sq.kring_entries, SEGV) * 64
        /\ Cardinality({j \in At("munmap") : log[j].addr = ring.sq.sqes}) = 1
        /\ Unmaps[2].addr = ring.sq.ring_ptr
        /\ At("close") = {Len(log)}
        /\ log[Len(log)].res = ring.ring_fd
\* A destroy of a ring of depth 4 with separate ring regions.
C9_Witness ==
    /\ last.op = "exit"
    /\ Len(Unmaps) = 3
    /\ Unmaps[1].len = 256

Estimated == last.op = "mlock_size_params"
Native == "NATIVE_WORKERS" \in kernel.features

\* C10 (as claimed): on a kernel with native-worker accounting the estimator
\* returns 0 for every depth and every options value (the environment failing
\* nothing).
C10_NativeAlwaysZero ==
    (Estimated /\ Native /\ ~last.fault) => last.ret = 0
\* C10 (amended): the estimator returns 0 whenever its throwaway ring was
\* created and reports native-worker accounting, whatever the options; for
\* depth 0 and depths above 32768 the throwaway ring is refused and the
\* estimator returns EINVAL instead.
C10_NativeZeroWhenRingMade ==
    (Estimated /\ Native) =>
        /\ last.made => last.ret = 0
        /\ ~last.made => last.ret < 0
        /\ (last.entries = 0 \/ last.entries > KERN_MAX_ENTRIES) =>
            ~last.made /\ last.ret = -EINVAL
\* 0 is returned for options carrying an invalid completion override.
C10_Witness ==
    /\ Estimated /\ Native
    /\ last.ret = 0 /\ last.made
    /\ "CQSIZE" \in last.flags /\ last.cq = 0

\* What the estimator returns in this state for depth e and options flags, cq,
\* the environment failing nothing.
EstimateOf(e, flags, cq) ==
    IoUringMlockSizeParams(Mach, e, Params(flags, cq), NoFault,
                           req.sysconf).ret

\* C11 (as claimed): for a depth above 32768 the estimator fails with EINVAL
\* when the options do not permit clamping, and with clamping permitted it
\* returns what it returns for depth 32768 and the same options.
C11_ClampAboveMax ==
    (Estimated /\ ~last.fault /\ last.entries > KERN_MAX_ENTRIES) =>
        IF "CLAMP" \in last.flags
        THEN last.ret = EstimateOf(KERN_MAX_ENTRIES, last.flags, last.cq)
        ELSE last.ret = -EINVAL

\* The estimator got past its throwaway ring on a kernel that accounts the
\* ring memory to the caller.
Sized == Estimated /\ last.made /\ ~Native
\* The caller supplied a completion override that passes the range checks.
Override ==
    /\ "CQSIZE" \in last.flags
    /\ last.cq > 0
    /\ last.cq <= KERN_MAX_CQ_ENTRIES \/ "CLAMP" \in last.flags
ClampedCq == Min({last.cq, KERN_MAX_CQ_ENTRIES})

\* C12 (as claimed): an override smaller than the rounded-up submission depth
\* makes the estimator fail with EINVAL.
C12_OverrideBelowDepthFails ==
    (Sized /\ Override /\ last.cq < Pow2Ceil(last.entries)) =>
        last.ret = -EINVAL
\* C12 (amended): once the throwaway ring was created on a kernel without
\* native workers, a valid override makes the estimator fail with EINVAL
\* exactly when the override, clamped and rounded up to a power of two, is
\* smaller than the rounded-up submission depth; depth 5 with override 5
\* succeeds, depth 5 with override 4 fails.
C12_RoundedOverrideBelowDepth ==
    (Sized /\ Override) =>
        (last.ret = -EINVAL <=> Pow2Ceil(ClampedCq) < Pow2Ceil(last.entries))
\* Depth 5 with override 4: 4 is below the rounded depth 8.
C12_Witness ==
    /\ Sized /\ Override
    /\ last.entries = 5 /\ last.cq = 4
    /\ last.ret = -EINVAL

\* C13: for depth 0 the estimator fails with EINVAL whatever the options, the
\* kernel and the environment.
C13_ZeroDepthInvalid ==
    (last.op \in {"mlock_size_params", "mlock_size"} /\ last.entries = 0) =>
        /\ last.ret = -EINVAL
        /\ ~last.made
\* Depth 0 with clamping and a valid override on a native-worker kernel.
C13_Witness ==
    /\ Estimated /\ last.entries = 0 /\ Native
    /\ last.flags = {"CLAMP", "CQSIZE"} /\ last.cq = 8
    /\ last.ret = -EINVAL

\* A 32-bit word that is a power of two; x >= y on 32-bit words.
IsPow2(x) ==
    \E k \in 0..15 : x = <<0, Pow2(k)>> \/ x = <<Pow2(k), 0>>
Geq(x, y) == x[1] > y[1] \/ (x[1] = y[1] /\ x[2] >= y[2])

\* C14 (as claimed): for every 32-bit n >= 1, roundup_pow2(n) is a power of
\* two, is at least n, and is left as it is by roundup_pow2.
C14_RoundUpPow2 ==
    /\ Len(rounded) >= 1 => IsPow2(rounded[1]) /\ Geq(rounded[1], depth)
    /\ Len(rounded) >= 2 => rounded[2] = rounded[1]
\* For n up to 2^31 the claim holds.
C14_RoundUpPow2Below ==
    Geq(<<Half \div 2, 0>>, depth) => C14_RoundUpPow2

\* The depths and the page size the estimate is made for, and whether the
\* arguments pass the estimator's checks.
SqDepth == Pow2Ceil(Min({last.entries, KERN_MAX_ENTRIES}))
CqDepth ==
    IF "CQSIZE" \in last.flags THEN Pow2Ceil(ClampedCq) ELSE 2 * SqDepth
PageSize == IF req.sysconf < 0 THEN DefaultPageSize ELSE req.sysconf
ValidArgs == "CQSIZE" \in last.flags => Override /\ CqDepth >= SqDepth
CqBytes == ((KRING_SIZE + CqDepth * SizeofCqe + 63) \div 64) * 64
SqBytes == SqDepth * SizeofSqe
CeilDiv(a, b) == (a + b - 1) \div b

\* C15 (as claimed): the estimate is the page size times the whole pages that
\* hold the completion region plus the whole pages that hold the entry array.
C15_WholePages ==
    (Sized /\ ValidArgs) =>
        last.ret = PageSize * (CeilDiv(CqBytes, PageSize)
                               + CeilDiv(SqBytes, PageSize))
\* C15 (amended): each region's whole-page count is rounded up to a power of
\* two before the two are added and multiplied by the page size.
C15_Pow2Pages ==
    (Sized /\ ValidArgs) =>
        last.ret = PageSize * (Pow2Ceil(CeilDiv(CqBytes, PageSize))
                               + Pow2Ceil(CeilDiv(SqBytes, PageSize)))
\* Depth 256 with the default completion depth 512 at a 4096-byte page: the
\* completion region of 3 pages counts as 4, the estimate is 8 pages.
C15_Witness ==
    /\ Sized /\ ValidArgs
    /\ last.entries = 256 /\ "CQSIZE" \notin last.flags /\ PageSize = 4096
    /\ CeilDiv(CqBytes, PageSize) = 3
    /\ last.ret = 8 * 4096

\* C16: for every valid depth, on a kernel without native workers, the
\* estimate made without a completion override equals the estimate made with
\* the explicit override 2 x (the depth rounded up to a power of two).
C16_DefaultCqIsTwiceSq ==
    (Sized /\ "CQSIZE" \notin last.flags) =>
        /\ last.ret > 0
        /\ last.ret = EstimateOf(last.entries, last.flags \cup {"CQSIZE"},
                                 2 * Pow2Ceil(last.entries))
\* Depth 5 without an override: the estimate of submission depth 8 and
\* completion depth 16, the same as with the explicit override 16.
C16_Witness ==
    /\ Sized /\ last.flags = {} /\ last.entries = 5
    /\ last.ret = rings_size(8, 16, PageSize)
    /\ last.ret = EstimateOf(5, {"CQSIZE"}, 16)

\* C17: the estimator leaves nothing behind: every region it mapped is
\* unmapped and the channel it opened is closed, last of all, whether it
\* returns 0, a byte count or an error; when the throwaway ring could not be
\* opened nothing was mapped or closed.
C17_EstimatorLeavesNothing ==
    last.op \in {"mlock_size_params", "mlock_size"} =>
        /\ mapped = last.preMapped /\ mapped = {}
        /\ fds = last.preFds /\ fds = {}
        /\ ~crashed
        /\ AllUnmappedOnce
        /\ Cardinality(At("munmap")) = Cardinality(MapsMade)
        /\ Cardinality(At("setup")) = 1 /\ log[1].op = "setup"
        /\ IF log[1].res < 0 THEN Len(log) = 1
           ELSE /\ At("close") = {Len(log)}
                /\ log[Len(log)].res = log[1].res
        /\ last.made => Cardinality(MapsMade) >= 2 /\ MapsFailed = {}
\* A byte count was returned after a throwaway ring with three regions was
\* mapped and unmapped.
C17_Witness ==
    /\ Estimated /\ last.made /\ last.ret > 0
    /\ Cardinality(At("munmap")) = 3
    /\ At("close") # {}

Probed == last.op = "get_probe"
QueryOk == \E i \in At("register") : log[i].addr >= 0
QueryFailed == \E i \in At("register") : log[i].addr < 0

\* C18: the probe returns a result exactly when its scratch ring was created
\* and the query succeeded; a failed probe leaves no buffer behind, the buffer
\* of a failed query being freed after the query; a successful probe leaves
\* exactly one buffer, which it did not free.
C18_ProbeResult ==
    Probed =>
        /\ last.ret # NULL <=> (last.made /\ QueryOk)
        /\ last.ret = NULL => heap = last.preHeap
        /\ last.ret # NULL => heap = last.preHeap + 1 /\ At("free") = {}
        /\ QueryFailed =>
            /\ Cardinality(At("free")) = 1
            /\ \A f \in At("free") : \A g \in At("register") : f > g
            /\ \A f \in At("free") : \E a \in At("malloc") :
                    a < f /\ log[a].addr = log[f].addr
        /\ ~last.made => At("malloc") = {} /\ At("register") = {}
\* The query failed on a created scratch ring and the buffer was freed.
C18_Witness ==
    /\ Probed /\ last.made /\ QueryFailed
    /\ last.ret = NULL
    /\ At("free") # {} /\ heap = last.preHeap

IsAdvise(e) == e.op = "madvise"
Advisories == SelectSeq(log, IsAdvise)
\* The regions of the caller's live ring, in the order of the claim.
RingRegions ==
    <<[addr |-> ring.sq.sqes,
       len |-> Load(Mach, ring.sq.kring_entries, SEGV) * SizeofSqe],
      [addr |-> ring.sq.ring_ptr, len |-> ring.sq.ring_sz]>>
    \o (IF ring.cq.ring_ptr # ring.sq.ring_ptr
        THEN <<[addr |-> ring.cq.ring_ptr, len |-> ring.cq.ring_sz]>>
        ELSE <<>>)
DontforkLive == last.op = "dontfork" /\ rstate = "live"

\* C19: on a live ring io_uring_ring_dontfork advises the entry array, the
\* submission ring and, if mapped apart, the completion ring, in that order;
\* it returns 0 only after advising every mapped region once; the first
\* failing advisory is the last one issued and its error is returned; nothing
\* is undone.
C19_DontforkOrder ==
    DontforkLive =>
        /\ ~crashed /\ mapped = last.preMapped
        /\ \A i \in DOMAIN log : log[i].op \in {"load", "madvise"}
        /\ Len(Advisories) \in 1..Len(RingRegions)
        /\ \A i \in DOMAIN Advisories :
            /\ Advisories[i].addr = RingRegions[i].addr
            /\ Advisories[i].len = RingRegions[i].len
            /\ i < Len(Advisories) => Advisories[i].res = 0
        /\ last.ret = 0 <=>
            /\ Advisories[Len(Advisories)].res = 0
            /\ Len(Advisories) = Cardinality(mapped)
            /\ {Advisories[i].addr : i \in DOMAIN Advisories}
                  = {m.addr : m \in mapped}
        /\ last.ret # 0 =>
            /\ Advisories[Len(Advisories)].res = -1
            /\ last.ret = -ENOMEM
\* The advisory on the submission ring failed after the entry array was
\* advised; the completion ring, mapped apart, was not advised.
C19_Witness ==
    /\ DontforkLive /\ last.ret = -ENOMEM
    /\ Len(Advisories) = 2 /\ Len(RingRegions) = 3
    /\ Advisories[1].res = 0

\* The address ptr lies in a region that is mapped when event i of the last
\* call happens.
Covers(a, l, ptr) == a <= ptr /\ ptr < a + l
MappedAt(i, ptr) ==
    /\ \/ \E m \in last.preMapped : Covers(m.addr, m.len, ptr)
       \/ \E k \in MapsMade : k < i /\ Covers(log[k].addr, log[k].len, ptr)
    /\ ~\E j \in At("munmap") :
            j < i /\ Covers(log[j].addr, log[j].len, ptr)
\* The last call was made on a ring that was successfully created and not yet
\* destroyed, or on a ring of its own.
OnCreatedRing == last.op # "dontfork" \/ rstate = "live"

\* C20: every read through a ring pointer happens while the region read is
\* mapped; in a destroy the depth is read before anything is unmapped.
C20_NoReadAfterUnmap ==
    OnCreatedRing =>
        /\ ~crashed
        /\ \A i \in At("load") : log[i].res # SEGV /\ MappedAt(i, log[i].addr)
        /\ last.op = "exit" =>
            /\ At("load") = {1}
            /\ log[1].addr = ring.sq.kring_entries
            /\ \E j \in At("munmap") :
                    j > 1 /\ Covers(log[j].addr, log[j].len, log[1].addr)
\* A destroy read the depth and afterwards unmapped the region it was in.
C20_Witness ==
    /\ last.op = "exit"
    /\ At("load") = {1}
    /\ \E j \in At("munmap") :
            j > 1 /\ Covers(log[j].addr, log[j].len, log[1].addr)
    /\ mapped = {}
====
